---- MODULE Spec2Model ----
(***************************************************************************)
(* Availability sync worker of komohaven (workers/avail-sync/src/index.js):*)
(* the scheduled handler walks the fixed property list and, per property,  *)
(* fetches the iCal feed with retries, parses and normalizes it, hashes    *)
(* the result and conditionally persists it into the KV store.             *)
(*                                                                         *)
(* Calendar dates "YYYY-MM-DD" are compared as strings by the code; for    *)
(* well-formed dates that order is the order of the days, so a date is a   *)
(* day number 1..MaxDate here and 0 stands for a missing/empty value       *)
(* (null, undefined or "", all falsy in JavaScript).                       *)
(***************************************************************************)
EXTENDS Integers, Sequences, FiniteSets, TLC

\* ------------------------------------------------------------------ bounds
MaxDate == 4
MaxLen == 3
MaxEvents == 1
MaxCycles == 2
MaxVEvents == 2
MaxDeliveries == 2

\* ------------------------------------------------------- program constants
\* backoffs = [0, 250, 750]: the number of attempts of one fetchWithTimeout call
MaxAttempts == 3

VARIABLES
  \* --- pure-function harness (normalizeRanges / parseICS applied to an input)
  nIn,        \* the list handed to normalizeRanges
  nOut,       \* None before the call, Some(result) after it
  \* --- environment bindings (env) and the KV namespace AVAIL_KV
  env,        \* the bindings: which secrets and namespaces are configured
  kv,         \* AVAIL_KV: [Keys -> None or Some(stored value)]
  now,        \* the clock: number of the running scheduled invocation
  \* --- the running invocation of scheduled() / syncProperty()
  pc,         \* position in scheduled / syncProperty / fetchWithTimeout
  idx,        \* index into props of the property being synced
  attempt,    \* loop variable of fetchWithTimeout
  timer,      \* TRUE while the timeout timer t of the attempt is armed
  lastErr,    \* lastErr of fetchWithTimeout
  icsText,    \* body returned by fetchWithTimeout
  feedHash,   \* sha256Hex(icsText)
  ranges,     \* normalizeRanges(parseICS(icsText))
  bookingHash,\* sha256Hex(JSON.stringify(ranges))
  \* --- history (observation only, never read by the code)
  hist,       \* of the running cycle of syncProperty
  lastDone,   \* per property: how its previous cycle ended
  \* --- a second invocation of scheduled() that overlaps the running one
  other,      \* its call of syncProperty for the first property
  \* --- the HTTP request being served by the worker's fetch handler or by one of
  \* --- the Pages functions api/availability and api/avail-health
  req,
  \* --- the Pages function api/stripe-webhook: its bindings, the namespace
  \* --- PAYMENTS_KV, the module variable processedInMemory, and the deliveries
  \* --- of Stripe events it is serving or has served
  hook

vars == <<nIn, nOut, env, kv, now, pc, idx, attempt, timer, lastErr, icsText,
          feedHash, ranges, bookingHash, hist, lastDone, other, req, hook>>

normVars == <<nIn, nOut>>
syncVars == <<env, kv, now, pc, idx, attempt, timer, lastErr, icsText,
              feedHash, ranges, bookingHash, hist, lastDone>>

\* an optional value: absent (null / undefined / key not in KV) or present
None == <<>>
Some(x) == <<x>>

\* ------------------------------------------------------------ normalizeRanges
Dates == 0..MaxDate
Range(s, e) == [start |-> s, end |-> e]
AnyRanges == {Range(s, e) : s \in Dates, e \in Dates}

RECURSIVE SeqsUpTo(_, _)
SeqsUpTo(S, n) ==
  IF n = 0 THEN {<<>>}
  ELSE LET shorter == SeqsUpTo(S, n - 1)
       IN shorter \cup {Append(q, x) : q \in {p \in shorter : Len(p) = n - 1}, x \in S}

\* .filter((r) => r && r.start && r.end): keeps the entries with both fields truthy
Truthy(seq) == SelectSeq(seq, LAMBDA r : r.start # 0 /\ r.end # 0)

\* a list left in its input order
Unsorted(seq) == seq

\* Array.prototype.sort with the comparator on start only: a stable sort, so
\* entries with equal start keep their input order.
RECURSIVE InsertByStart(_, _)
InsertByStart(sorted, r) ==
  IF sorted = <<>> THEN <<r>>
  ELSE LET l == sorted[Len(sorted)]
       IN IF l.start <= r.start
          THEN Append(sorted, r)
          ELSE Append(InsertByStart(SubSeq(sorted, 1, Len(sorted) - 1), r), l)

RECURSIVE SortByStart(_)
SortByStart(seq) ==
  IF seq = <<>> THEN <<>>
  ELSE InsertByStart(SortByStart(SubSeq(seq, 1, Len(seq) - 1)), seq[Len(seq)])

\* an overlap test that never holds
OverlapsNever(r, last) == FALSE

\* the overlap test of the sweep: if (r.start <= last.end)
Overlaps(r, last) == r.start <= last.end

\* a sweep step that never extends the end of the last merged entry
MergeStepKeepsEnd(merged, r) ==
  IF merged = <<>> THEN <<r>>
  ELSE IF r.start <= merged[Len(merged)].end THEN merged ELSE Append(merged, r)

\* one iteration of `for (const r of sorted)` over the list merged so far
MergeStep(merged, r) ==
  IF merged = <<>> THEN <<r>>
  ELSE LET last == merged[Len(merged)]
       IN IF Overlaps(r, last)
          THEN IF r.end > last.end
               THEN [merged EXCEPT ![Len(merged)].end = r.end]
               ELSE merged
          ELSE Append(merged, r)

RECURSIVE MergeSweep(_)
MergeSweep(sorted) ==
  IF sorted = <<>> THEN <<>>
  ELSE MergeStep(MergeSweep(SubSeq(sorted, 1, Len(sorted) - 1)), sorted[Len(sorted)])

\* a pass that drops the last entry of a list of several
DedupeDropsLast(merged) ==
  IF Len(merged) > 1 THEN SubSeq(merged, 1, Len(merged) - 1) ELSE merged

\* "Deduplicate identical ranges": drops an entry equal to the one kept before it
RECURSIVE Dedupe(_)
Dedupe(merged) ==
  IF merged = <<>> THEN <<>>
  ELSE LET front == Dedupe(SubSeq(merged, 1, Len(merged) - 1))
           r == merged[Len(merged)]
       IN IF front # <<>> /\ front[Len(front)] = r THEN front ELSE Append(front, r)

normalizeRanges(rs) == Dedupe(MergeSweep(SortByStart(Truthy(rs))))

\* ------------------------------------------------------------------ parseICS
\* One VEVENT block of a feed after unfolding: the value of its DTSTART and DTEND
\* properties reduced to a day (0: property missing or not a date), and whether
\* a STATUS property equals CANCELLED.
Events == [dtstart : Dates, dtend : Dates, cancelled : BOOLEAN]

\* a cancellation test that never holds
NeverCancelled(ev) == FALSE

isCancelled(ev) == ev.cancelled

\* a parser that gives up on the whole feed when one VEVENT yields no interval
parseICSAllOrNothing(text) ==
  IF \E i \in DOMAIN text : ~(text[i].dtstart # 0 /\ text[i].dtend > text[i].dtstart)
  THEN <<>>
  ELSE [i \in DOMAIN text |-> Range(text[i].dtstart, text[i].dtend)]

\* a parser that pushes every VEVENT without looking at its dates
parseICSUnfiltered(text) ==
  [i \in DOMAIN text |-> Range(text[i].dtstart, text[i].dtend)]

RECURSIVE parseICS(_)
parseICS(text) ==
  IF text = <<>> THEN <<>>
  ELSE LET front == parseICS(SubSeq(text, 1, Len(text) - 1))
           ev == text[Len(text)]
       IN IF ~isCancelled(ev) /\ ev.dtstart # 0 /\ ev.dtend # 0 /\ ev.dtend > ev.dtstart
          THEN Append(front, Range(ev.dtstart, ev.dtend))
          ELSE front

\* The text of one VEVENT block: the values of its DTSTART, DTEND and STATUS
\* lines. A boundary line is absent, holds a date (digits of a day) or holds text
\* that is no date; the STATUS line is absent (""), or holds the given word.
RawValues == {<<"absent">>, <<"garbage">>} \cup {<<"date", d>> : d \in 1..MaxDate}
VEvents == [DTSTART : RawValues, DTEND : RawValues, STATUS : {"", "CONFIRMED", "CANCELLED"}]

\* normalizeDate: "YYYY-MM-DD" of a date value, null when the value is no date
normalizeDate(value) == IF value[1] = "date" THEN value[2] ELSE 0

\* extractDate: null when the block has no such line, else normalizeDate of it
extractDate(event, key) ==
  IF event[key] = <<"absent">> THEN 0 ELSE normalizeDate(event[key])

\* what the loop of parseICS has in hand at END:VEVENT for each block of a text
Extracted(text) ==
  [i \in DOMAIN text |->
     [ dtstart |-> extractDate(text[i], "DTSTART"),
       dtend |-> extractDate(text[i], "DTEND"),
       cancelled |-> text[i].STATUS = "CANCELLED" ]]

\* ------------------------------------------------------------- configuration
\* const props = [...] of scheduled(): the fixed property list, one feed each
props == << [slug |-> "blue-dream", source |-> "airbnb"],
            [slug |-> "studio-9", source |-> "airbnb"] >>
Slugs == {props[i].slug : i \in DOMAIN props}

statusKey(slug) == <<"avail", slug, "sync_status">>
bookedKey(slug) == <<"avail", slug, "booked">>
lastKey(slug) == <<"avail", slug, "last_sync">>
Keys == UNION {{statusKey(s), bookedKey(s), lastKey(s)} : s \in Slugs}
\* the key of the connectivity test of api/avail-health
healthKey == <<"health", "last">>
StoreKeys == Keys \cup {healthKey}

\* The bodies an upstream feed may serve: up to MaxEvents VEVENT blocks, each a
\* well-formed one-night booking, a malformed block whose end precedes its start,
\* or a block without a usable DTSTART.
FeedEvents == { [dtstart |-> 1, dtend |-> 2, cancelled |-> FALSE],
                [dtstart |-> 2, dtend |-> 1, cancelled |-> FALSE],
                [dtstart |-> 0, dtend |-> 2, cancelled |-> FALSE] }
FeedBodies == SeqsUpTo(FeedEvents, MaxEvents)

\* --------------------------------------------------------- hashing and JSON
\* SHA-256 as a collision-free digest: the hex string stands for its preimage.
sha256Hex(text) == [sha256 |-> text]
\* `sha256:${hash}` and .replace("sha256:", "")
WithPrefix(h) == [prefix |-> "sha256:", hex |-> h]
StripPrefix(s) == s.hex
\* JSON.stringify / JSON.parse of the plain objects the worker stores
JSONstringify(v) == [json |-> v]
JSONparse(s) == s.json

\* ---------------------------------------------------------------- writeStatus
\* the payload writeStatus builds; booking_hash / feed_hash only when given
StatusPayload(ok, source, message, bh, fh, changed) ==
  [ ok |-> ok, ts |-> now, message |-> message, source |-> source, changed |-> changed,
    booking_hash |-> IF bh = None THEN None ELSE Some(WithPrefix(bh[1])),
    feed_hash |-> IF fh = None THEN None ELSE Some(WithPrefix(fh[1])) ]

\* --------------------------------------------------------------- fetchWithTimeout
\* how one attempt can end, as the network decides
HttpStatuses == {"HTTP 429", "HTTP 5xx", "HTTP 4xx"}
\* a retry test that also retries the other 4xx statuses
RetryableStatusAny(st) == st \in HttpStatuses

\* if (res.status === 429 || res.status >= 500)
RetryableStatus(st) == st \in {"HTTP 429", "HTTP 5xx"}
\* err.message.startsWith("HTTP ")
IsHttpError(err) == err \in HttpStatuses

\* ------------------------------------------------------------------- history
FreshHist(slug) ==
  [ booked0 |-> kv[bookedKey(slug)], last0 |-> kv[lastKey(slug)],
    status0 |-> kv[statusKey(slug)],
    putBooked |-> FALSE, putLast |-> FALSE, statusWrites |-> 0, lastMsg |-> "",
    alerts |-> 0, requests |-> 0, lastEnd |-> "", delivered |-> None,
    storeFailed |-> FALSE, hashFailed |-> FALSE,
    readPrev |-> FALSE, prevHash |-> None, alertThrew |-> FALSE ]
IdleHist ==
  [ booked0 |-> None, last0 |-> None, status0 |-> None,
    putBooked |-> FALSE, putLast |-> FALSE, statusWrites |-> 0, lastMsg |-> "",
    alerts |-> 0, requests |-> 0, lastEnd |-> "", delivered |-> None,
    storeFailed |-> FALSE, hashFailed |-> FALSE,
    readPrev |-> FALSE, prevHash |-> None, alertThrew |-> FALSE ]

\* the history of a fetchWithTimeout call that returned is dropped once
\* syncProperty has moved on from it
FetchConsumed == [hist EXCEPT !.requests = 0, !.lastEnd = "", !.delivered = None]

slug == props[idx].slug
source == props[idx].source

\* no HTTP request has been received
IdleReq == [handler |-> "none", pc |-> "idle", method |-> "", bound |-> FALSE,
            slug |-> None, gets |-> {}, got |-> <<>>, resp |-> None]

\* the ids of the Stripe events delivered to the webhook: "" is an event without id
EventIds == {"", "evt_1"}
Deliveries == 1..MaxDeliveries

\* a delivery slot before its request arrives
NoDelivery == [pc |-> "none", id |-> "", verified |-> FALSE, status |-> 0]

\* the webhook function with its bindings, nothing stored and no delivery received
IdleHook(secret, kvBound, tg) ==
  [ secret |-> secret, kvBound |-> kvBound, tg |-> tg,
    marked |-> {}, mem |-> {},
    counters |-> 0, alerts |-> 0,
    puts |-> [e \in EventIds |-> 0], sent |-> [e \in EventIds |-> 0],
    dl |-> [d \in Deliveries |-> NoDelivery] ]

\* no overlapping invocation has been started
IdleOther == [pc |-> "idle", ranges |-> None, bookingHash |-> None, feedHash |-> None,
              doneAt |-> 0]

\* ----------------------------------------------------------------- initial state
SyncInitValues ==
  /\ kv = [k \in StoreKeys |-> None]
  /\ now = 0
  /\ pc = "idle"
  /\ idx = 1
  /\ attempt = 0
  /\ timer = FALSE
  /\ lastErr = None
  /\ icsText = None
  /\ feedHash = None
  /\ ranges = None
  /\ bookingHash = None
  /\ hist = IdleHist
  /\ lastDone = [s \in Slugs |-> None]
  /\ other = IdleOther
  /\ req = IdleReq
  /\ hook = IdleHook(FALSE, FALSE, FALSE)

Init ==
  /\ nIn = <<>>
  /\ nOut = None
  /\ env \in [url : [Slugs -> BOOLEAN], tg : BOOLEAN, kvBound : BOOLEAN]
  /\ SyncInitValues

\* ------------------------------------------------------------------ scheduled
\* scheduled(): the KV binding is missing, the handler logs and returns
ScheduledNoKv ==
  /\ pc = "idle"
  /\ now < MaxCycles
  /\ ~env.kvBound
  /\ now' = now + 1
  /\ UNCHANGED <<hook, req, other, nIn, nOut, env, kv, pc, idx, attempt, timer, lastErr, icsText,
                 feedHash, ranges, bookingHash, hist, lastDone>>

\* scheduled(): builds props and enters the loop over them
Scheduled ==
  /\ pc = "idle"
  /\ now < MaxCycles
  /\ env.kvBound
  /\ now' = now + 1
  /\ idx' = 1
  /\ pc' = "sync"
  /\ UNCHANGED <<hook, req, other, nIn, nOut, env, kv, attempt, timer, lastErr, icsText,
                 feedHash, ranges, bookingHash, hist, lastDone>>

\* syncProperty up to its first await: the missing-URL check, else the first
\* attempt of fetchWithTimeout (backoffs[0] = 0: no wait), timer armed
SyncStart ==
  /\ pc = "sync"
  /\ attempt' = 0
  /\ lastErr' = None
  /\ IF ~env.url[slug]
     THEN /\ pc' = "ws_missing_url"
          /\ timer' = FALSE
          /\ hist' = FreshHist(slug)
     ELSE /\ pc' = "fetch_wait"
          /\ timer' = TRUE
          /\ hist' = [FreshHist(slug) EXCEPT !.requests = 1]
  /\ UNCHANGED <<hook, req, other, nIn, nOut, env, kv, now, idx, icsText, feedHash, ranges,
                 bookingHash, lastDone>>

\* an attempt loop that gives up after the first failed attempt
AttemptFailedNoRetry(err, retry, kind) ==
  /\ lastErr' = Some(err)
  /\ timer' = FALSE
  /\ hist' = [hist EXCEPT !.lastEnd = kind]
  /\ attempt' = 0
  /\ pc' = "ws_fetch_error"
  /\ UNCHANGED <<hook, req, other, nIn, nOut, env, kv, now, idx, icsText, feedHash, ranges,
                 bookingHash, lastDone>>

\* the end of a failed attempt that leaves the timeout timer of the attempt armed
AttemptFailedKeepsTimer(err, retry, kind) ==
  /\ lastErr' = Some(err)
  /\ hist' = [hist EXCEPT !.lastEnd = kind]
  /\ IF retry /\ attempt + 1 < MaxAttempts
     THEN /\ attempt' = attempt + 1
          /\ pc' = "backoff"
     ELSE /\ attempt' = 0
          /\ pc' = "ws_fetch_error"
  /\ UNCHANGED <<hook, req, other, nIn, nOut, env, kv, now, idx, timer, icsText, feedHash, ranges,
                 bookingHash, lastDone>>

\* the end of an attempt that failed with err, after clearTimeout(t): the loop
\* goes on to the next attempt (behind its backoff delay) when retry holds and
\* attempts remain, otherwise fetchWithTimeout throws lastErr into the catch of
\* syncProperty, which awaits writeStatus(..., "fetch_error")
AttemptFailed(err, retry, kind) ==
  /\ lastErr' = Some(err)
  /\ timer' = FALSE
  /\ hist' = [hist EXCEPT !.lastEnd = kind]
  /\ IF retry /\ attempt + 1 < MaxAttempts
     THEN /\ attempt' = attempt + 1
          /\ pc' = "backoff"
     ELSE /\ attempt' = 0
          /\ pc' = "ws_fetch_error"
  /\ UNCHANGED <<hook, req, other, nIn, nOut, env, kv, now, idx, icsText, feedHash, ranges,
                 bookingHash, lastDone>>

\* await fetch(url, {signal}) resolves with a 2xx response: clearTimeout(t),
\* then await res.text()
FetchOk ==
  /\ pc = "fetch_wait"
  /\ timer' = FALSE
  /\ pc' = "body_wait"
  /\ UNCHANGED <<hook, req, other, nIn, nOut, env, kv, now, idx, attempt, lastErr, icsText, feedHash,
                 ranges, bookingHash, hist, lastDone>>

\* await fetch resolves with a non-2xx status
FetchStatus ==
  /\ pc = "fetch_wait"
  /\ \E st \in HttpStatuses : AttemptFailed(st, RetryableStatus(st), st)

\* await fetch rejects: a network error, or the abort raised by the armed timer
FetchThrows ==
  /\ pc = "fetch_wait"
  /\ \E err \in {"network", "AbortError"} :
       /\ (err = "AbortError") => timer
       /\ AttemptFailed(err, ~IsHttpError(err), err)

\* the backoff delay of attempts 2 and 3 elapses: new controller, timer armed, fetch
Backoff ==
  /\ pc = "backoff"
  /\ timer' = TRUE
  /\ pc' = "fetch_wait"
  /\ hist' = [hist EXCEPT !.requests = @ + 1]
  /\ UNCHANGED <<hook, req, other, nIn, nOut, env, kv, now, idx, attempt, lastErr, icsText, feedHash,
                 ranges, bookingHash, lastDone>>

\* await res.text() resolves: fetchWithTimeout returns the body; syncProperty
\* awaits sha256Hex(icsText)
BodyRead ==
  /\ pc = "body_wait"
  /\ \E b \in FeedBodies :
       /\ icsText' = Some(b)
       /\ hist' = [hist EXCEPT !.lastEnd = "body", !.delivered = Some(b)]
  /\ pc' = "hash_feed"
  /\ attempt' = 0
  /\ UNCHANGED <<hook, req, other, nIn, nOut, env, kv, now, idx, timer, lastErr, feedHash,
                 ranges, bookingHash, lastDone>>

\* await res.text() rejects (connection lost while reading the body)
BodyThrows ==
  /\ pc = "body_wait"
  /\ AttemptFailed("network", ~IsHttpError("network"), "bodyerr")

\* ------------------------------------------------------------------ syncProperty
\* feedHash = await sha256Hex(icsText); then, synchronously,
\* ranges = normalizeRanges(parseICS(icsText)) and the call of the second digest.
\* Neither parseICS nor normalizeRanges can throw on a string, so the catch that
\* reports "parse_error" (lines 73-78) is never entered.
HashFeed ==
  /\ pc = "hash_feed"
  /\ feedHash' = Some(sha256Hex(icsText[1]))
  /\ ranges' = Some(normalizeRanges(parseICS(icsText[1])))
  /\ pc' = "hash_booking"
  /\ lastErr' = None
  /\ hist' = FetchConsumed
  /\ UNCHANGED <<hook, req, other, nIn, nOut, env, kv, now, idx, attempt, timer, icsText,
                 bookingHash, lastDone>>

\* the digest of the feed text rejects: caught by the fetch try (line 63)
HashFeedThrows ==
  /\ pc = "hash_feed"
  /\ hist' = [FetchConsumed EXCEPT !.hashFailed = TRUE]
  /\ pc' = "ws_fetch_error"
  /\ lastErr' = Some("digest")
  /\ UNCHANGED <<hook, req, other, nIn, nOut, env, kv, now, idx, attempt, timer, icsText,
                 feedHash, ranges, bookingHash, lastDone>>

\* bookingHash = await sha256Hex(JSON.stringify(ranges)); then kv.get(statusKey)
HashBooking ==
  /\ pc = "hash_booking"
  /\ bookingHash' = Some(sha256Hex(JSONstringify(ranges[1])))
  /\ pc' = "kv_get"
  /\ UNCHANGED <<hook, req, other, nIn, nOut, env, kv, now, idx, attempt, timer, lastErr, icsText,
                 feedHash, ranges, hist, lastDone>>

HashBookingThrows ==
  /\ pc = "hash_booking"
  /\ hist' = [hist EXCEPT !.hashFailed = TRUE]
  /\ pc' = "ws_hash_error"
  /\ UNCHANGED <<hook, req, other, nIn, nOut, env, kv, now, idx, attempt, timer, lastErr, icsText,
                 feedHash, ranges, bookingHash, lastDone>>

\* previousBookingHash = previousStatus?.booking_hash?.replace("sha256:", "")
previousBookingHash ==
  LET previousStatusJson == kv[statusKey(slug)]
  IN IF previousStatusJson = None THEN None
     ELSE LET previousStatus == JSONparse(previousStatusJson[1])
          IN IF previousStatus.booking_hash = None THEN None
             ELSE Some(StripPrefix(previousStatus.booking_hash[1]))

\* a change test on the hash of the raw feed text instead of the booking hash
ChangedByFeedHash(prev, cur) ==
  \/ kv[statusKey(slug)] = None
  \/ JSONparse(kv[statusKey(slug)][1]).feed_hash # Some(WithPrefix(feedHash[1]))

\* a change test that ignores the stored hash
ChangedAlways(prev, cur) == TRUE

\* a change test with the comparison inverted
ChangedInverted(prev, cur) == prev = cur

\* const changed = previousBookingHash !== bookingHash
Changed(prev, cur) == prev # cur

\* a persist stage that writes last_sync first when the content changed
KvGetLastFirst ==
  /\ pc = "kv_get"
  /\ hist' = [hist EXCEPT !.readPrev = TRUE, !.prevHash = previousBookingHash]
  /\ pc' = IF Changed(previousBookingHash, bookingHash) THEN "put_last" ELSE "ws_unchanged"
  /\ UNCHANGED <<hook, req, other, nIn, nOut, env, kv, now, idx, attempt, timer, lastErr, icsText,
                 feedHash, ranges, bookingHash, lastDone>>

\* await kv.get(statusKey) resolves: the branch on changed
KvGet ==
  /\ pc = "kv_get"
  /\ hist' = [hist EXCEPT !.readPrev = TRUE, !.prevHash = previousBookingHash]
  /\ pc' = IF Changed(previousBookingHash, bookingHash) THEN "put_booked" ELSE "ws_unchanged"
  /\ UNCHANGED <<hook, req, other, nIn, nOut, env, kv, now, idx, attempt, timer, lastErr, icsText,
                 feedHash, ranges, bookingHash, lastDone>>

\* a store operation of the persist stage rejects: the catch at line 109
StoreThrows ==
  /\ pc \in {"kv_get", "put_booked", "put_last", "ws_unchanged", "ws_ok"}
  /\ hist' = [hist EXCEPT !.storeFailed = TRUE,
                          !.putBooked = @ \/ pc = "put_booked",
                          !.putLast = @ \/ pc = "put_last"]
  /\ pc' = "ws_kv_write_error"
  /\ UNCHANGED <<hook, req, other, nIn, nOut, env, kv, now, idx, attempt, timer, lastErr, icsText,
                 feedHash, ranges, bookingHash, lastDone>>

\* await kv.put(bookedKey, JSON.stringify(ranges))
PutBooked ==
  /\ pc = "put_booked"
  /\ kv' = [kv EXCEPT ![bookedKey(slug)] = Some(JSONstringify(ranges[1]))]
  /\ hist' = [hist EXCEPT !.putBooked = TRUE]
  /\ pc' = "put_last"
  /\ UNCHANGED <<hook, req, other, nIn, nOut, env, now, idx, attempt, timer, lastErr, icsText,
                 feedHash, ranges, bookingHash, lastDone>>

\* await kv.put(lastKey, new Date().toISOString())
PutLast ==
  /\ pc = "put_last"
  /\ kv' = [kv EXCEPT ![lastKey(slug)] = Some(now)]
  /\ hist' = [hist EXCEPT !.putLast = TRUE]
  /\ pc' = "ws_ok"
  /\ UNCHANGED <<hook, req, other, nIn, nOut, env, now, idx, attempt, timer, lastErr, icsText,
                 feedHash, ranges, bookingHash, lastDone>>

\* status arguments that carry the name of the call site as the message
StatusAtSite(site) ==
  StatusPayload(site \in {"ws_unchanged", "ws_ok"}, source, site, None, feedHash, FALSE)

\* the arguments of the writeStatus call at each call site
StatusAt(site) ==
  CASE site = "ws_missing_url" -> StatusPayload(FALSE, source, "missing_url", None, None, FALSE)
    [] site = "ws_fetch_error" -> StatusPayload(FALSE, source, "fetch_error", None, None, FALSE)
    [] site = "ws_hash_error" -> StatusPayload(FALSE, source, "hash_error", None, feedHash, FALSE)
    [] site = "ws_unchanged" -> StatusPayload(TRUE, source, "unchanged", bookingHash, feedHash, FALSE)
    [] site = "ws_ok" -> StatusPayload(TRUE, source, "ok", bookingHash, feedHash, TRUE)
    [] site = "ws_kv_write_error" ->
         StatusPayload(FALSE, source, "kv_write_error", None, feedHash, FALSE)

\* where syncProperty goes once the writeStatus of a call site has resolved:
\* the two success sites fall out of the try and return, the others alert
AfterStatus(site) == IF site \in {"ws_unchanged", "ws_ok"} THEN "done" ELSE "alert"

\* a writeStatus that also resets the booked list when it records a failure
WriteStatusResetsBooked ==
  /\ pc \in {"ws_missing_url", "ws_fetch_error", "ws_hash_error", "ws_unchanged",
             "ws_ok", "ws_kv_write_error"}
  /\ kv' = [kv EXCEPT ![statusKey(slug)] = Some(JSONstringify(StatusAt(pc))),
                      ![bookedKey(slug)] =
                         IF StatusAt(pc).ok THEN @ ELSE Some(JSONstringify(<<>>))]
  /\ hist' = [hist EXCEPT !.statusWrites = @ + 1, !.lastMsg = StatusAt(pc).message]
  /\ pc' = AfterStatus(pc)
  /\ UNCHANGED <<hook, req, other, nIn, nOut, env, now, idx, attempt, timer, lastErr, icsText,
                 feedHash, ranges, bookingHash, lastDone>>

\* writeStatus: await kv.put(key, JSON.stringify(payload)) resolves
WriteStatus ==
  /\ pc \in {"ws_missing_url", "ws_fetch_error", "ws_hash_error", "ws_unchanged",
             "ws_ok", "ws_kv_write_error"}
  /\ kv' = [kv EXCEPT ![statusKey(slug)] = Some(JSONstringify(StatusAt(pc)))]
  /\ hist' = [hist EXCEPT !.statusWrites = @ + 1, !.lastMsg = StatusAt(pc).message]
  /\ pc' = AfterStatus(pc)
  /\ UNCHANGED <<hook, req, other, nIn, nOut, env, now, idx, attempt, timer, lastErr, icsText,
                 feedHash, ranges, bookingHash, lastDone>>

\* writeStatus rejects outside the persist try: nothing catches it, the error
\* leaves syncProperty and the loop of scheduled
WriteStatusThrows ==
  /\ pc \in {"ws_missing_url", "ws_fetch_error", "ws_hash_error", "ws_kv_write_error"}
  /\ hist' = [hist EXCEPT !.storeFailed = TRUE]
  /\ pc' = "crashed"
  /\ UNCHANGED <<hook, req, other, nIn, nOut, env, kv, now, idx, attempt, timer, lastErr, icsText,
                 feedHash, ranges, bookingHash, lastDone>>

\* sendTelegram: returns at once when the bot is not configured, else one POST
\* whose failure is swallowed
SendTelegram ==
  /\ pc = "alert"
  /\ hist' = [hist EXCEPT !.alerts = IF env.tg THEN @ + 1 ELSE @]
  /\ pc' = "done"
  /\ UNCHANGED <<hook, req, other, nIn, nOut, env, kv, now, idx, attempt, timer, lastErr, icsText,
                 feedHash, ranges, bookingHash, lastDone>>

\* an alert request whose failure is not contained and leaves syncProperty
SendTelegramEscapes ==
  /\ pc = "alert"
  /\ env.tg
  /\ hist' = [hist EXCEPT !.alerts = @ + 1, !.alertThrew = TRUE]
  /\ pc' = "crashed"
  /\ UNCHANGED <<hook, req, other, nIn, nOut, env, kv, now, idx, attempt, timer, lastErr, icsText,
                 feedHash, ranges, bookingHash, lastDone>>

\* sendTelegram: the POST to the bot API rejects; the catch swallows the error
SendTelegramThrows ==
  /\ pc = "alert"
  /\ env.tg
  /\ hist' = [hist EXCEPT !.alerts = @ + 1, !.alertThrew = TRUE]
  /\ pc' = "done"
  /\ UNCHANGED <<hook, req, other, nIn, nOut, env, kv, now, idx, attempt, timer, lastErr, icsText,
                 feedHash, ranges, bookingHash, lastDone>>

\* how the cycle that just ended is remembered for its property
CycleOutcome ==
  IF pc = "done" /\ hist.lastMsg \in {"ok", "unchanged"}
  THEN Some([ranges |-> ranges[1]])
  ELSE None

\* syncProperty returns (or its error escapes): the loop of scheduled goes to
\* the next property, or the invocation ends
Return ==
  /\ pc = "done"
  /\ lastDone' = [lastDone EXCEPT ![slug] = CycleOutcome]
  /\ IF idx < Len(props)
     THEN /\ idx' = idx + 1
          /\ pc' = "sync"
     ELSE /\ idx' = 1
          /\ pc' = "idle"
  /\ hist' = IdleHist
  /\ attempt' = 0
  /\ lastErr' = None
  /\ icsText' = None
  /\ feedHash' = None
  /\ ranges' = None
  /\ bookingHash' = None
  /\ UNCHANGED <<hook, req, other, nIn, nOut, env, kv, now, timer>>

Escape ==
  /\ pc = "crashed"
  /\ lastDone' = [lastDone EXCEPT ![slug] = CycleOutcome]
  /\ idx' = 1
  /\ pc' = "idle"
  /\ hist' = IdleHist
  /\ attempt' = 0
  /\ lastErr' = None
  /\ icsText' = None
  /\ feedHash' = None
  /\ ranges' = None
  /\ bookingHash' = None
  /\ UNCHANGED <<hook, req, other, nIn, nOut, env, kv, now, timer>>

Next ==
  \/ ScheduledNoKv
  \/ Scheduled
  \/ SyncStart
  \/ FetchOk
  \/ FetchStatus
  \/ FetchThrows
  \/ Backoff
  \/ BodyRead
  \/ BodyThrows
  \/ HashFeed
  \/ HashFeedThrows
  \/ HashBooking
  \/ HashBookingThrows
  \/ KvGet
  \/ StoreThrows
  \/ PutBooked
  \/ PutLast
  \/ WriteStatus
  \/ WriteStatusThrows
  \/ SendTelegram
  \/ SendTelegramThrows
  \/ Return
  \/ Escape

Spec == Init /\ [][Next]_vars

\* ------------------------------------------------- two overlapping invocations
\* A second invocation of scheduled() is started while the first one is inside
\* syncProperty for props[0]; each invocation has its own locals, both share
\* AVAIL_KV and interleave at every await. The steps of the second call that touch
\* no shared state (fetchWithTimeout, the digests, parseICS and normalizeRanges)
\* are taken as one; the feeds and the store answer every request.
otherSlug == props[1].slug
otherSource == props[1].source

\* the second call of syncProperty runs up to its await of kv.get(statusKey)
OtherStart ==
  /\ other.pc = "idle"
  /\ idx = 1
  /\ pc \notin {"idle", "sync", "done"}
  /\ \E b \in FeedBodies :
       other' = [other EXCEPT !.pc = "kv_get",
                              !.feedHash = Some(sha256Hex(b)),
                              !.ranges = Some(normalizeRanges(parseICS(b))),
                              !.bookingHash =
                                 Some(sha256Hex(JSONstringify(normalizeRanges(parseICS(b)))))]
  /\ UNCHANGED <<hook, req, nIn, nOut, env, kv, now, pc, idx, attempt, timer, lastErr, icsText,
                 feedHash, ranges, bookingHash, hist, lastDone>>

\* previousBookingHash as the second call reads it
otherPreviousBookingHash ==
  LET previousStatusJson == kv[statusKey(otherSlug)]
  IN IF previousStatusJson = None THEN None
     ELSE LET previousStatus == JSONparse(previousStatusJson[1])
          IN IF previousStatus.booking_hash = None THEN None
             ELSE Some(StripPrefix(previousStatus.booking_hash[1]))

\* await kv.get(statusKey) of the second call resolves: the branch on changed
OtherKvGet ==
  /\ other.pc = "kv_get"
  /\ other' = [other EXCEPT !.pc = IF Changed(otherPreviousBookingHash, other.bookingHash)
                                   THEN "put_booked" ELSE "ws_unchanged"]
  /\ UNCHANGED <<hook, req, nIn, nOut, env, kv, now, pc, idx, attempt, timer, lastErr, icsText,
                 feedHash, ranges, bookingHash, hist, lastDone>>

OtherPutBooked ==
  /\ other.pc = "put_booked"
  /\ kv' = [kv EXCEPT ![bookedKey(otherSlug)] = Some(JSONstringify(other.ranges[1]))]
  /\ other' = [other EXCEPT !.pc = "put_last"]
  /\ UNCHANGED <<hook, req, nIn, nOut, env, now, pc, idx, attempt, timer, lastErr, icsText,
                 feedHash, ranges, bookingHash, hist, lastDone>>

OtherPutLast ==
  /\ other.pc = "put_last"
  /\ kv' = [kv EXCEPT ![lastKey(otherSlug)] = Some(now)]
  /\ other' = [other EXCEPT !.pc = "ws_ok"]
  /\ UNCHANGED <<hook, req, nIn, nOut, env, now, pc, idx, attempt, timer, lastErr, icsText,
                 feedHash, ranges, bookingHash, hist, lastDone>>

\* writeStatus of the second call ("unchanged" or "ok"), after which it returns
OtherWriteStatus ==
  /\ other.pc \in {"ws_unchanged", "ws_ok"}
  /\ kv' = [kv EXCEPT ![statusKey(otherSlug)] =
               Some(JSONstringify(
                 IF other.pc = "ws_ok"
                 THEN StatusPayload(TRUE, otherSource, "ok", other.bookingHash,
                                    other.feedHash, TRUE)
                 ELSE StatusPayload(TRUE, otherSource, "unchanged", other.bookingHash,
                                    other.feedHash, FALSE)))]
  /\ other' = [other EXCEPT !.pc = "done", !.doneAt = now]
  /\ UNCHANGED <<hook, req, nIn, nOut, env, now, pc, idx, attempt, timer, lastErr, icsText,
                 feedHash, ranges, bookingHash, hist, lastDone>>

InitRace ==
  /\ nIn = <<>>
  /\ nOut = None
  /\ env = [url |-> [s \in Slugs |-> TRUE], tg |-> FALSE, kvBound |-> TRUE]
  /\ SyncInitValues

NextRace ==
  \/ Scheduled
  \/ SyncStart
  \/ FetchOk
  \/ BodyRead
  \/ HashFeed
  \/ HashBooking
  \/ KvGet
  \/ PutBooked
  \/ PutLast
  \/ WriteStatus
  \/ Return
  \/ OtherStart
  \/ OtherKvGet
  \/ OtherPutBooked
  \/ OtherPutLast
  \/ OtherWriteStatus

SpecRace == InitRace /\ [][NextRace]_vars

\* ------------------------------------------------- normalizeRanges on its own
InitNorm ==
  /\ \E n \in 0..MaxLen : nIn \in [1..n -> AnyRanges]
  /\ nOut = None
  /\ env = [url |-> [s \in Slugs |-> FALSE], tg |-> FALSE, kvBound |-> FALSE]
  /\ SyncInitValues

\* the call normalizeRanges(nIn)
Normalize ==
  /\ nOut = None
  /\ nOut' = Some(normalizeRanges(nIn))
  /\ UNCHANGED <<hook, req, other, nIn, env, kv, now, pc, idx, attempt, timer, lastErr, icsText,
                 feedHash, ranges, bookingHash, hist, lastDone>>

NextNorm == Normalize

SpecNorm == InitNorm /\ [][NextNorm]_vars

\* ------------------------------------------------------------- HTTP handlers
\* A request is served by one handler at a time; a new request may arrive once
\* the previous one has been answered and its response returned. Handlers share only the KV namespace with
\* the scheduled worker and run concurrently with it.
Methods == {"GET", "POST"}

\* The value of the slug query parameter: the words it is made of after trim()
\* and toLowerCase(), whether it had upper-case letters, whether it had
\* surrounding whitespace. No words and no padding is the absent/empty parameter.
RawSlug(words, upper, padded) == [words |-> words, upper |-> upper, padded |-> padded]
RawSlugs ==
  { RawSlug(<<>>, FALSE, FALSE), RawSlug(<<>>, FALSE, TRUE),
    RawSlug(<<"blue-dream">>, TRUE, TRUE), RawSlug(<<"studio9">>, FALSE, FALSE),
    RawSlug(<<"studio", "9">>, TRUE, FALSE), RawSlug(<<"villa">>, FALSE, FALSE) }

\* raw.replace(/\s+/g, "-")
RECURSIVE Hyphenated(_)
Hyphenated(words) ==
  IF words = <<>> THEN ""
  ELSE IF Len(words) = 1 THEN words[1]
  ELSE words[1] \o "-" \o Hyphenated(Tail(words))

normalizeSlug(value) ==
  IF value.words = <<>> /\ ~value.padded THEN ""
  ELSE LET raw == value.words
       IN IF raw = <<"studio9">> \/ raw = <<"studio-9">> THEN "studio-9"
          ELSE IF raw = <<"blue-dream">> THEN "blue-dream"
          ELSE Hyphenated(raw)

\* a slug test that lets every slug pass
AnySlug(sl) == TRUE

\* !(!slug || (slug !== "blue-dream" && slug !== "studio-9"))
ConfiguredSlug(sl) == sl # "" /\ (sl = "blue-dream" \/ sl = "studio-9")

\* kv.get(key): null for a key the namespace does not hold
KvRead(k) == IF k \in DOMAIN kv THEN kv[k] ELSE None

jsonResponse(body, status) == Some([status |-> status, body |-> body])

NewRequest(handler, method, bound, sl) ==
  [handler |-> handler, pc |-> "idle", method |-> method, bound |-> bound,
   slug |-> sl, gets |-> {}, got |-> <<>>, resp |-> None]

Answered(r, response) == [r EXCEPT !.pc = "answered", !.resp = response]

\* the fetch handler of the worker: answers with the hint how to run scheduled()
Fetch ==
  /\ req.pc = "idle"
  /\ \E m \in Methods :
       req' = Answered(NewRequest("fetch", m, env.kvBound, None),
                       Some([status |-> 200, body |-> [text |-> "__scheduled"]]))
  /\ UNCHANGED <<hook, other, nIn, nOut, env, kv, now, pc, idx, attempt, timer, lastErr, icsText,
                 feedHash, ranges, bookingHash, hist, lastDone>>

\* api/availability onRequest up to its first await: method, binding and slug
\* checks, then Promise.all issues both gets
AvailabilityRequest ==
  /\ req.pc = "idle"
  /\ \E m \in Methods, b \in BOOLEAN, raw \in RawSlugs :
       LET r == NewRequest("availability", m, b, Some(raw))
           sl == normalizeSlug(raw)
       IN req' =
            IF m # "GET"
            THEN Answered(r, jsonResponse([ok |-> FALSE, error |-> "method"], 405))
            ELSE IF ~b
            THEN Answered(r, jsonResponse([ok |-> FALSE, error |-> "kv_missing"], 500))
            ELSE IF ~ConfiguredSlug(sl)
            THEN Answered(r, jsonResponse([ok |-> FALSE, error |-> "invalid_slug"], 400))
            ELSE [r EXCEPT !.pc = "reading", !.gets = {bookedKey(sl), lastKey(sl)}]
  /\ UNCHANGED <<hook, other, nIn, nOut, env, kv, now, pc, idx, attempt, timer, lastErr, icsText,
                 feedHash, ranges, bookingHash, hist, lastDone>>

\* the response built once both gets have resolved: booked defaults to "[]"
AvailabilityBody(sl, got) ==
  LET bookedData == got[bookedKey(sl)]
      lastSyncData == got[lastKey(sl)]
  IN [ ok |-> TRUE, slug |-> sl, key |-> bookedKey(sl),
       booked |-> IF bookedData = None THEN <<>> ELSE JSONparse(bookedData[1]),
       last_sync |-> lastSyncData ]

\* one of the two gets resolves; with the second one the handler answers
AvailabilityGet ==
  /\ req.handler = "availability"
  /\ req.pc = "reading"
  /\ \E k \in req.gets \ DOMAIN req.got :
       LET got == [j \in DOMAIN req.got \cup {k} |->
                     IF j = k THEN KvRead(k) ELSE req.got[j]]
           r == [req EXCEPT !.got = got]
       IN req' = IF DOMAIN got = req.gets
                 THEN Answered(r, jsonResponse(
                        AvailabilityBody(normalizeSlug(req.slug[1]), got), 200))
                 ELSE r
  /\ UNCHANGED <<hook, other, nIn, nOut, env, kv, now, pc, idx, attempt, timer, lastErr, icsText,
                 feedHash, ranges, bookingHash, hist, lastDone>>

\* a get rejects: Promise.all rejects, the catch answers kv_read_failed
AvailabilityGetThrows ==
  /\ req.handler = "availability"
  /\ req.pc = "reading"
  /\ req' = Answered(req, jsonResponse([ok |-> FALSE, error |-> "kv_read_failed"], 500))
  /\ UNCHANGED <<hook, other, nIn, nOut, env, kv, now, pc, idx, attempt, timer, lastErr, icsText,
                 feedHash, ranges, bookingHash, hist, lastDone>>

\* api/avail-health onRequest up to its first await
HealthRequest ==
  /\ req.pc = "idle"
  /\ \E m \in Methods, b \in BOOLEAN :
       LET r == NewRequest("avail-health", m, b, None)
       IN req' =
            IF m # "GET"
            THEN Answered(r, jsonResponse([ok |-> FALSE, error |-> "method_not_allowed"], 405))
            ELSE IF ~b
            THEN Answered(r, jsonResponse([ok |-> FALSE, error |-> "missing_AVAIL_KV_binding"], 500))
            ELSE [r EXCEPT !.pc = "health_put"]
  /\ UNCHANGED <<hook, other, nIn, nOut, env, kv, now, pc, idx, attempt, timer, lastErr, icsText,
                 feedHash, ranges, bookingHash, hist, lastDone>>

\* a health probe that writes its timestamp under a last_sync key
HealthPutLastSync ==
  /\ req.handler = "avail-health"
  /\ req.pc = "health_put"
  /\ kv' = [kv EXCEPT ![lastKey(props[1].slug)] = Some(now)]
  /\ req' = [req EXCEPT !.pc = "health_get", !.got = <<now>>]
  /\ UNCHANGED <<hook, other, nIn, nOut, env, now, pc, idx, attempt, timer, lastErr, icsText,
                 feedHash, ranges, bookingHash, hist, lastDone>>

\* await env.AVAIL_KV.put("health:last", ts)
HealthPut ==
  /\ req.handler = "avail-health"
  /\ req.pc = "health_put"
  /\ kv' = [kv EXCEPT ![healthKey] = Some(now)]
  /\ req' = [req EXCEPT !.pc = "health_get", !.got = <<now>>]
  /\ UNCHANGED <<hook, other, nIn, nOut, env, now, pc, idx, attempt, timer, lastErr, icsText,
                 feedHash, ranges, bookingHash, hist, lastDone>>

\* await env.AVAIL_KV.get("health:last"), then the 200 answer
HealthGet ==
  /\ req.handler = "avail-health"
  /\ req.pc = "health_get"
  /\ req' = Answered([req EXCEPT !.gets = {healthKey}],
                     jsonResponse([ok |-> TRUE, wrote |-> req.got[1],
                                   read |-> KvRead(healthKey)], 200))
  /\ UNCHANGED <<hook, other, nIn, nOut, env, kv, now, pc, idx, attempt, timer, lastErr, icsText,
                 feedHash, ranges, bookingHash, hist, lastDone>>

\* the put or the get rejects: the catch answers 500 with the error message
HealthThrows ==
  /\ req.handler = "avail-health"
  /\ req.pc \in {"health_put", "health_get"}
  /\ req' = Answered(req, jsonResponse([ok |-> FALSE, error |-> "kv"], 500))
  /\ UNCHANGED <<hook, other, nIn, nOut, env, kv, now, pc, idx, attempt, timer, lastErr, icsText,
                 feedHash, ranges, bookingHash, hist, lastDone>>

\* the handler returns its Response: the request is over
Respond ==
  /\ req.pc = "answered"
  /\ req' = IdleReq
  /\ UNCHANGED <<hook, other, nIn, nOut, env, kv, now, pc, idx, attempt, timer, lastErr, icsText,
                 feedHash, ranges, bookingHash, hist, lastDone>>

\* the worker in its last modelled invocation, together with the HTTP handlers
InitHttp ==
  /\ nIn = <<>>
  /\ nOut = None
  /\ env \in [url : [Slugs -> BOOLEAN], tg : BOOLEAN, kvBound : BOOLEAN]
  /\ kv = [k \in StoreKeys |-> None]
  /\ now = MaxCycles - 1
  /\ pc = "idle"
  /\ idx = 1
  /\ attempt = 0
  /\ timer = FALSE
  /\ lastErr = None
  /\ icsText = None
  /\ feedHash = None
  /\ ranges = None
  /\ bookingHash = None
  /\ hist = IdleHist
  /\ lastDone = [s \in Slugs |-> None]
  /\ other = IdleOther
  /\ req = IdleReq
  /\ hook = IdleHook(FALSE, FALSE, FALSE)

NextHttp ==
  \/ Next
  \/ Fetch
  \/ AvailabilityRequest
  \/ AvailabilityGet
  \/ AvailabilityGetThrows
  \/ HealthRequest
  \/ HealthPut
  \/ HealthGet
  \/ HealthThrows
  \/ Respond

SpecHttp == InitHttp /\ [][NextHttp]_vars

\* ------------------------------------------------------- api/stripe-webhook
\* Stripe delivers an event as a POST; it delivers the same event again when a
\* delivery is not acknowledged in time, so deliveries of one event can overlap.
\* Each delivery runs onRequest on its own; the deliveries share PAYMENTS_KV
\* and, within an isolate, processedInMemory.
Signatures == {"missing", "bad", "good"}

\* the handler returns its Response (or the platform answers for it)
AnswerDelivery(d, status) == [hook EXCEPT !.dl[d].pc = "answered", !.dl[d].status = status]

\* bumpCounter: get then put of the counter, every failure swallowed; without
\* PAYMENTS_KV it returns at once
BumpOutcomes ==
  IF hook.kvBound THEN {hook.counters, hook.counters + 1} ELSE {hook.counters}

\* onRequest up to `await hasProcessed(env, eventId)`: method, secret and
\* signature checks, constructEvent, the counters, shouldNotify
WebhookRequest(d) ==
  /\ hook.dl[d].pc = "none"
  /\ \E m \in Methods, sig \in Signatures, id \in EventIds, paid \in BOOLEAN,
        c \in BumpOutcomes, alerted \in BOOLEAN :
       LET h == [hook EXCEPT !.dl[d].id = id]
       IN hook' =
            IF m # "POST"
            THEN [h EXCEPT !.dl[d].pc = "answered", !.dl[d].status = 405]
            ELSE IF ~hook.secret
            THEN [h EXCEPT !.dl[d].pc = "answered", !.dl[d].status = 500]
            ELSE IF sig = "missing"
            THEN [h EXCEPT !.dl[d].pc = "answered", !.dl[d].status = 400,
                           !.counters = c]
            ELSE IF sig = "bad"
            THEN [h EXCEPT !.dl[d].pc = "answered", !.dl[d].status = 400,
                           !.counters = c,
                           !.alerts = IF hook.tg /\ alerted THEN @ + 1 ELSE @]
            ELSE IF ~paid
            THEN [h EXCEPT !.dl[d].pc = "answered", !.dl[d].status = 200,
                           !.dl[d].verified = TRUE, !.counters = c]
            ELSE [h EXCEPT !.dl[d].pc = "lookup", !.dl[d].verified = TRUE,
                           !.counters = c]
  /\ UNCHANGED <<req, other, nIn, nOut, env, kv, now, pc, idx, attempt, timer, lastErr,
                 icsText, feedHash, ranges, bookingHash, hist, lastDone>>

\* hasProcessed: Boolean(await PAYMENTS_KV.get(eventId)), or the in-memory set
\* when the namespace is not bound; false for an event without id
hasProcessed(eventId) ==
  IF eventId = "" THEN FALSE
  ELSE IF hook.kvBound THEN eventId \in hook.marked
  ELSE eventId \in hook.mem

\* `if (await hasProcessed(env, eventId)) return jsonResponse({received: true})`;
\* otherwise the message is built and persistBooking is called
HasProcessed(d) ==
  /\ hook.dl[d].pc = "lookup"
  /\ hook' = IF hasProcessed(hook.dl[d].id)
             THEN AnswerDelivery(d, 200)
             ELSE [hook EXCEPT !.dl[d].pc = "persist"]
  /\ UNCHANGED <<req, other, nIn, nOut, env, kv, now, pc, idx, attempt, timer, lastErr,
                 icsText, feedHash, ranges, bookingHash, hist, lastDone>>

\* PAYMENTS_KV.get(eventId) rejects: hasProcessed is awaited outside any try, the
\* error leaves onRequest and the platform answers 500
HasProcessedThrows(d) ==
  /\ hook.dl[d].pc = "lookup"
  /\ hook.dl[d].id # ""
  /\ hook.kvBound
  /\ hook' = AnswerDelivery(d, 500)
  /\ UNCHANGED <<req, other, nIn, nOut, env, kv, now, pc, idx, attempt, timer, lastErr,
                 icsText, feedHash, ranges, bookingHash, hist, lastDone>>

\* persistBooking: skipped without PAYMENTS_KV; else the put of the booking
\* record and the update of the index, each failure logged and swallowed
PersistBooking(d) ==
  /\ hook.dl[d].pc = "persist"
  /\ \E stored \in BOOLEAN :
       hook' = [hook EXCEPT !.dl[d].pc = "notify",
                            !.puts[hook.dl[d].id] =
                               IF hook.kvBound /\ stored THEN @ + 1 ELSE @]
  /\ UNCHANGED <<req, other, nIn, nOut, env, kv, now, pc, idx, attempt, timer, lastErr,
                 icsText, feedHash, ranges, bookingHash, hist, lastDone>>

\* sendTelegram(env, message): returns at once when the bot is not configured;
\* else one POST, whose failure is swallowed
Notify(d) ==
  /\ hook.dl[d].pc = "notify"
  /\ \E delivered \in BOOLEAN :
       hook' = [hook EXCEPT !.dl[d].pc = "mark",
                            !.sent[hook.dl[d].id] =
                               IF hook.tg /\ delivered THEN @ + 1 ELSE @]
  /\ UNCHANGED <<req, other, nIn, nOut, env, kv, now, pc, idx, attempt, timer, lastErr,
                 icsText, feedHash, ranges, bookingHash, hist, lastDone>>

\* markProcessed resolves: PAYMENTS_KV.put(eventId, "1") or processedInMemory.add;
\* nothing for an event without id; then jsonResponse({received: true})
MarkProcessed(d) ==
  /\ hook.dl[d].pc = "mark"
  /\ LET id == hook.dl[d].id
         h == AnswerDelivery(d, 200)
     IN hook' = IF id = "" THEN h
                ELSE IF hook.kvBound THEN [h EXCEPT !.marked = @ \cup {id}]
                ELSE [h EXCEPT !.mem = @ \cup {id}]
  /\ UNCHANGED <<req, other, nIn, nOut, env, kv, now, pc, idx, attempt, timer, lastErr,
                 icsText, feedHash, ranges, bookingHash, hist, lastDone>>

\* PAYMENTS_KV.put(eventId, "1") rejects: caught by the try around persistBooking,
\* sendTelegram and markProcessed; the event stays unmarked, the answer is 200
MarkProcessedThrows(d) ==
  /\ hook.dl[d].pc = "mark"
  /\ hook.dl[d].id # ""
  /\ hook.kvBound
  /\ hook' = AnswerDelivery(d, 200)
  /\ UNCHANGED <<req, other, nIn, nOut, env, kv, now, pc, idx, attempt, timer, lastErr,
                 icsText, feedHash, ranges, bookingHash, hist, lastDone>>

InitWebhook ==
  /\ nIn = <<>>
  /\ nOut = None
  /\ env = [url |-> [s \in Slugs |-> TRUE], tg |-> FALSE, kvBound |-> TRUE]
  /\ kv = [k \in StoreKeys |-> None]
  /\ now = 0
  /\ pc = "idle"
  /\ idx = 1
  /\ attempt = 0
  /\ timer = FALSE
  /\ lastErr = None
  /\ icsText = None
  /\ feedHash = None
  /\ ranges = None
  /\ bookingHash = None
  /\ hist = IdleHist
  /\ lastDone = [s \in Slugs |-> None]
  /\ other = IdleOther
  /\ req = IdleReq
  /\ \E secret \in BOOLEAN, kvBound \in BOOLEAN, tg \in BOOLEAN :
       hook = IdleHook(secret, kvBound, tg)

NextWebhook ==
  \E d \in Deliveries :
    \/ WebhookRequest(d)
    \/ HasProcessed(d)
    \/ HasProcessedThrows(d)
    \/ PersistBooking(d)
    \/ Notify(d)
    \/ MarkProcessed(d)
    \/ MarkProcessedThrows(d)

SpecWebhook == InitWebhook /\ [][NextWebhook]_vars

\* ------------------------------------------------ one invocation, with progress
\* The last modelled invocation of scheduled(). Every await of the worker is on
\* a network attempt, a backoff timer, a digest or a store operation, each of
\* which settles (resolves or rejects) in finite time, so a step of the
\* invocation that can be taken is eventually taken.
InitLive ==
  /\ nIn = <<>>
  /\ nOut = None
  /\ env \in [url : [Slugs -> BOOLEAN], tg : BOOLEAN, kvBound : BOOLEAN]
  /\ kv = [k \in StoreKeys |-> None]
  /\ now = MaxCycles - 1
  /\ pc = "idle"
  /\ idx = 1
  /\ attempt = 0
  /\ timer = FALSE
  /\ lastErr = None
  /\ icsText = None
  /\ feedHash = None
  /\ ranges = None
  /\ bookingHash = None
  /\ hist = IdleHist
  /\ lastDone = [s \in Slugs |-> None]
  /\ other = IdleOther
  /\ req = IdleReq
  /\ hook = IdleHook(FALSE, FALSE, FALSE)

SpecLive == InitLive /\ [][Next]_vars /\ WF_vars(Next)

\* ------------------------------------------------------- parseICS on its own
InitParse ==
  /\ \E n \in 0..MaxVEvents : nIn \in [1..n -> VEvents]
  /\ nOut = None
  /\ env = [url |-> [s \in Slugs |-> FALSE], tg |-> FALSE, kvBound |-> FALSE]
  /\ SyncInitValues

\* the call parseICS(nIn)
Parse ==
  /\ nOut = None
  /\ nOut' = Some(parseICS(Extracted(nIn)))
  /\ UNCHANGED <<hook, req, other, nIn, env, kv, now, pc, idx, attempt, timer, lastErr, icsText,
                 feedHash, ranges, bookingHash, hist, lastDone>>

NextParse == Parse

SpecParse == InitParse /\ [][NextParse]_vars

\* ===================================================================== claims
\* ---- helpers of the statements below
Valid(r) == r.start # 0 /\ r.start < r.end
\* two half-open intervals share at least one night
RangesOverlap(r, x) == Valid(r) /\ Valid(x) /\ r.start < x.end /\ x.start < r.end
InSeq(x, seq) == \E i \in DOMAIN seq : seq[i] = x

\* the cycle of syncProperty has ended (returned, or its error escaped)
CycleEnded == pc \in {"done", "crashed"}
\* the positions syncProperty is in after fetchWithTimeout threw
FailurePath == {"ws_fetch_error", "alert", "done", "crashed"}
\* the ways an attempt can end other than by delivering the body
RetryableEnds == {"network", "AbortError", "bodyerr", "HTTP 429", "HTTP 5xx"}
FailedEnds == RetryableEnds \cup {"HTTP 4xx"}
\* fetchWithTimeout threw in the running cycle: its only feed failed
FeedFailed == pc \in FailurePath /\ hist.lastEnd \in FailedEnds
\* the SyncStatus under the status key (meaningful once one has been written)
storedStatus == JSONparse(kv[statusKey(slug)][1])
\* the previous cycle of this property ended with an ok status for the list that
\* the feed text fetched in this cycle normalizes to
SameAsLastOk ==
  /\ lastDone[slug] # None
  /\ icsText # None
  /\ normalizeRanges(parseICS(icsText[1])) = lastDone[slug][1].ranges
\* the booking hash carried by the SyncStatus that was stored when the cycle began
hashAtStart ==
  IF hist.status0 = None THEN None
  ELSE LET b == JSONparse(hist.status0[1]).booking_hash
       IN IF b = None THEN None ELSE Some(b[1].hex)

\* C1: normalizeRanges never merges two intervals that only touch: when the input
\* holds [a,b) and [b,c), a<b<c, and no other input interval overlaps either, the
\* output holds both of them and does not hold [a,c).
C1_TouchingNotMerged ==
  nOut # None =>
    \A i, j \in DOMAIN nIn :
      LET p == nIn[i]
          q == nIn[j]
      IN ( /\ Valid(p) /\ Valid(q) /\ p.end = q.start
           /\ \A k \in DOMAIN nIn \ {i, j} :
                ~RangesOverlap(nIn[k], p) /\ ~RangesOverlap(nIn[k], q) )
         => /\ InSeq(p, nOut[1])
            /\ InSeq(q, nOut[1])
            /\ ~InSeq(Range(p.start, q.end), nOut[1])

C3_WriteOnlyWhenContentDiffers ==
  (hist.putBooked \/ hist.putLast) =>
    hist.booked0 # Some(JSONstringify(ranges[1]))

\* C4: when the candidate hash differs from the hash of the stored SyncStatus (or
\* none is stored) and no store operation fails, the cycle ends with booked equal
\* to the candidate, last_sync rewritten, and a SyncStatus ok=true, changed=true,
\* message "ok" carrying the candidate hash.
C4_ChangedIsPersisted ==
  ( /\ CycleEnded
    /\ bookingHash # None
    /\ hashAtStart # bookingHash
    /\ ~hist.storeFailed )
  => /\ kv[bookedKey(slug)] = Some([json |-> normalizeRanges(parseICS(icsText[1]))])
     /\ hist.putLast
     /\ kv[lastKey(slug)] = Some(now)
     /\ hist.statusWrites = 1
     /\ storedStatus.ok
     /\ storedStatus.changed
     /\ storedStatus.message = "ok"
     /\ storedStatus.booking_hash = Some(WithPrefix(bookingHash[1]))

C4_Witness ==
  /\ pc = "done"
  /\ bookingHash # None
  /\ hashAtStart # None
  /\ hashAtStart # bookingHash
  /\ ~hist.storeFailed
  /\ hist.booked0 # None
  /\ kv[bookedKey(slug)] # hist.booked0
  /\ storedStatus.message = "ok"

\* C5: a cycle whose feed failed issues no put of booked or last_sync; both keys
\* hold the values they had when the cycle began.
C5_FeedFailedNoWrite ==
  FeedFailed =>
    /\ ~hist.putBooked
    /\ ~hist.putLast
    /\ kv[bookedKey(slug)] = hist.booked0
    /\ kv[lastKey(slug)] = hist.last0

C5_Witness ==
  /\ pc = "done"
  /\ FeedFailed
  /\ hist.booked0 # None
  /\ hist.booked0 # Some(JSONstringify(<<>>))
  /\ kv[bookedKey(slug)] = hist.booked0
  /\ hist.statusWrites = 1

\* C6: the SyncStatus written by a cycle whose every feed failed has ok=false and
\* message "all_feeds_failed".
C6_AllFeedsFailedStatus ==
  (CycleEnded /\ FeedFailed /\ hist.statusWrites > 0) =>
    /\ ~storedStatus.ok
    /\ storedStatus.message = "all_feeds_failed"

\* C7: with the alert channel configured, a cycle whose every feed failed emits
\* exactly one alert.
C7_ExactlyOneAlert ==
  (CycleEnded /\ FeedFailed /\ env.tg) => hist.alerts = 1

\* C8: a cycle in which one source answered HTTP 5xx on every attempt while the
\* other source of the property is healthy ends with SyncStatus ok=true, message
\* "partial" (the worker requests no second source, so the health of that source
\* is no part of the state: it may be taken to hold in every behaviour).
C8_PartialOnOneFeedDown ==
  ( /\ CycleEnded
    /\ FeedFailed
    /\ hist.lastEnd = "HTTP 5xx"
    /\ hist.requests = MaxAttempts
    /\ hist.statusWrites > 0 )
  => /\ storedStatus.ok
     /\ storedStatus.message = "partial"

ErrorOf(kind) == IF kind = "bodyerr" THEN "network" ELSE kind
C10_RetryPolicy ==
  /\ hist.requests <= MaxAttempts
  /\ pc = "backoff" => (hist.lastEnd \in RetryableEnds /\ hist.requests < MaxAttempts)
  /\ pc \in {"fetch_wait", "body_wait"} =>
       (hist.requests = 1 \/ hist.lastEnd \in RetryableEnds)
  /\ FeedFailed =>
       /\ hist.lastEnd \in RetryableEnds => hist.requests = MaxAttempts
       /\ lastErr = Some(ErrorOf(hist.lastEnd))
  /\ pc = "hash_feed" =>
       /\ hist.lastEnd = "body"
       /\ icsText = hist.delivered

C10_Witness ==
  /\ pc = "ws_fetch_error"
  /\ hist.requests = MaxAttempts
  /\ hist.lastEnd = "AbortError"
  /\ lastErr = Some("AbortError")

\* ---- error handling of scheduled / syncProperty
\* a store operation of the persist stage (lines 90-108) failed in this cycle
PersistFailed == hist.storeFailed /\ bookingHash # None

\* C11: within one invocation no failure while syncing a property keeps the cycle
\* of the next property from being started: whenever the cycle of a property
\* that is not the last one has ended, the next step starts the next property.
C11_NextResourceStarted ==
  [][(CycleEnded /\ idx < Len(props)) => (pc' = "sync" /\ idx' = idx + 1)]_vars

\* C12: a cycle in which a store operation of the persist stage failed ends with a
\* SyncStatus written for the property, ok=false and message "store_write_error",
\* and (the alert channel being configured) one alert emitted.
C12_StoreFailureRecorded ==
  (CycleEnded /\ PersistFailed) =>
    /\ hist.statusWrites > 0
    /\ ~storedStatus.ok
    /\ storedStatus.message = "store_write_error"
    /\ env.tg => hist.alerts = 1

\* the message vocabulary as the specification lists it, and with the name the
\* worker gives to a failed store operation
SpecVocabulary ==
  {"missing_url", "fetch_error", "parse_error", "merge_error", "hash_error",
   "store_write_error", "all_feeds_failed", "unchanged", "ok", "partial"}
WorkerVocabulary == (SpecVocabulary \ {"store_write_error"}) \cup {"kv_write_error"}

C14_LostWriteSuperseded ==
  ( /\ pc = "done"
    /\ slug = otherSlug
    /\ other.pc = "done"
    /\ other.doneAt < now
    /\ ranges # None
    /\ hist.statusWrites > 0 )
  => kv[bookedKey(slug)] = Some(JSONstringify(normalizeRanges(parseICS(icsText[1]))))

\* C15: the feed hash never gates a write. With no digest or store failure, whether
\* the cycle puts booked and last_sync, the values it puts and the ok, changed and
\* message fields of its SyncStatus are a function of the stored status hash and
\* the normalized list alone; two feed texts with different bytes and the same
\* normalized list therefore give the same writes and the same status fields.
C15_FeedHashNeverGates ==
  (CycleEnded /\ ranges # None /\ ~hist.storeFailed /\ ~hist.hashFailed) =>
    LET list == normalizeRanges(parseICS(icsText[1]))
        differs == hashAtStart # Some(sha256Hex(JSONstringify(list)))
    IN /\ hist.putBooked = differs
       /\ hist.putLast = differs
       /\ kv[bookedKey(slug)] = IF differs THEN Some(JSONstringify(list)) ELSE hist.booked0
       /\ kv[lastKey(slug)] = IF differs THEN Some(now) ELSE hist.last0
       /\ storedStatus.ok
       /\ storedStatus.changed = differs
       /\ storedStatus.message = IF differs THEN "ok" ELSE "unchanged"

\* the cycle fetched a text whose hash differs from the feed hash of the stored
\* status while the list it normalizes to is the stored one: nothing was put
C15_Witness ==
  /\ pc = "done"
  /\ ranges # None
  /\ ~hist.storeFailed
  /\ ~hist.hashFailed
  /\ hist.status0 # None
  /\ JSONparse(hist.status0[1]).feed_hash # None
  /\ JSONparse(hist.status0[1]).feed_hash # Some(WithPrefix(feedHash[1]))
  /\ hashAtStart = bookingHash
  /\ ~hist.putBooked
  /\ storedStatus.message = "unchanged"

\* ---- configuration, timers, ordering and shape of the status
\* the property being synced has no feed URL configured and its cycle has begun
MissingUrlCycle == ~env.url[slug] /\ pc \notin {"idle", "sync"}

\* C23: a failure of the alert channel never changes the sync outcome: when the
\* alert is attempted the SyncStatus of the cycle has been written; the alert step,
\* whether the channel is unconfigured, answers or throws, changes no key of the
\* store and ends with syncProperty returning; and after a cycle that returned,
\* the loop starts the next property.
C23_AlertFailureContained ==
  [][ /\ pc = "alert" => (hist.statusWrites = 1 /\ kv' = kv /\ pc' = "done")
      /\ (pc = "done" /\ idx < Len(props)) => (pc' = "sync" /\ idx' = idx + 1) ]_vars

C23_Witness ==
  /\ pc = "done"
  /\ idx = 1
  /\ env.tg
  /\ hist.alertThrew
  /\ hist.statusWrites = 1
  /\ ~storedStatus.ok
  /\ kv[statusKey(slug)] # hist.status0

\* C24: for a property without a configured feed URL no request is made, booked
\* and last_sync keep their values, the cycle ends with a SyncStatus ok=false,
\* "missing_url", and it ends by returning, so that the loop of the invocation
\* goes on to the other properties.
C24_MissingUrlRecorded ==
  MissingUrlCycle =>
    /\ hist.requests = 0
    /\ ~hist.putBooked
    /\ ~hist.putLast
    /\ kv[bookedKey(slug)] = hist.booked0
    /\ kv[lastKey(slug)] = hist.last0
    /\ CycleEnded =>
         /\ pc = "done"
         /\ hist.statusWrites = 1
         /\ ~storedStatus.ok
         /\ storedStatus.message = "missing_url"

\* C25: fetchWithTimeout leaks no timer: the timeout timer of an attempt is armed
\* only while that attempt waits for its response; it is cleared before the backoff
\* of the next attempt, before the body is read and before the call returns or
\* throws. A timer is armed only from positions in which none is armed, so at most
\* one is armed at any moment.
C25_NoTimerLeak ==
  timer => pc = "fetch_wait"

C25_Witness ==
  /\ pc = "backoff"
  /\ hist.requests = 2
  /\ hist.lastEnd = "HTTP 5xx"
  /\ ~timer

\* the keys of the property hold what they held when the cycle began and no store
\* operation of the cycle has been issued
NoStoreOpYet ==
  /\ ~hist.readPrev
  /\ ~hist.putBooked
  /\ ~hist.putLast
  /\ hist.statusWrites = 0
  /\ kv[bookedKey(slug)] = hist.booked0
  /\ kv[lastKey(slug)] = hist.last0
  /\ kv[statusKey(slug)] = hist.status0

\* C26: the steps of a cycle run in a fixed order: no store operation before the
\* fetch has finished; the list is parsed from the fetched text, the booking hash
\* taken from the list, the previous status read after the hash; booked is put only
\* after that read found a different hash, last_sync only after booked was stored,
\* and the "ok" SyncStatus only after last_sync was stored; one status per cycle.
C26_FixedOrder ==
  /\ pc \in {"fetch_wait", "backoff", "body_wait", "hash_feed", "hash_booking"} => NoStoreOpYet
  /\ ranges # None => (icsText # None /\ ranges = Some(normalizeRanges(parseICS(icsText[1]))))
  /\ bookingHash # None => (ranges # None /\ feedHash # None)
  /\ hist.readPrev => bookingHash # None
  /\ hist.putBooked => (hist.readPrev /\ hist.prevHash # bookingHash)
  /\ hist.putLast => (hist.putBooked /\ kv[bookedKey(slug)] = Some(JSONstringify(ranges[1])))
  /\ hist.lastMsg = "ok" => (hist.putLast /\ kv[lastKey(slug)] = Some(now))
  /\ hist.lastMsg = "unchanged" => (hist.readPrev /\ ~hist.putBooked /\ ~hist.putLast)
  /\ hist.statusWrites <= 1

C26_Witness ==
  /\ pc = "done"
  /\ hist.lastMsg = "ok"
  /\ hist.putBooked
  /\ hist.putLast
  /\ hist.booked0 # None
  /\ kv[bookedKey(slug)] # hist.booked0
  /\ kv[lastKey(slug)] # hist.last0

\* the feed sources configured for a property
SourcesOf(s) == {props[i].source : i \in {j \in DOMAIN props : props[j].slug = s}}

\* C28: every SyncStatus stored for a property holds a feeds map with one entry
\* for each feed source configured for that property.
C28_StatusHasFeedsMap ==
  \A s \in Slugs :
    kv[statusKey(s)] # None =>
      LET status == JSONparse(kv[statusKey(s)][1])
      IN /\ "feeds" \in DOMAIN status
         /\ DOMAIN status.feeds = SourcesOf(s)

\* ---- parseICS (checked under SpecParse)
\* the block has both boundary lines, both hold dates, and the end is later
WellFormed(b) ==
  /\ b.DTSTART[1] = "date"
  /\ b.DTEND[1] = "date"
  /\ b.DTEND[2] > b.DTSTART[2]
\* a text without its i-th block
Without(text, i) == SubSeq(text, 1, i - 1) \o SubSeq(text, i + 1, Len(text))

\* C29: a malformed VEVENT (a boundary missing or no date, or end not after start)
\* contributes nothing and disturbs nothing: the result is the result for the text
\* without that block, and every well-formed block that is not cancelled has its
\* interval in the result.
C29_MalformedSkipped ==
  nOut # None =>
    \A i \in DOMAIN nIn :
      /\ ~WellFormed(nIn[i]) => nOut[1] = parseICS(Extracted(Without(nIn, i)))
      /\ (WellFormed(nIn[i]) /\ nIn[i].STATUS # "CANCELLED") =>
           InSeq(Range(nIn[i].DTSTART[2], nIn[i].DTEND[2]), nOut[1])

C29_Witness ==
  /\ nOut # None
  /\ Len(nIn) = 2
  /\ nIn[1].DTEND = <<"garbage">>
  /\ nIn[1].DTSTART = <<"date", 1>>
  /\ WellFormed(nIn[2])
  /\ nIn[2].STATUS = "CONFIRMED"
  /\ nOut[1] = << Range(nIn[2].DTSTART[2], nIn[2].DTEND[2]) >>

\* C30: a VEVENT whose STATUS is CANCELLED contributes nothing, whatever its
\* dates, and suppresses nothing: the result is the result for the text without
\* that block.
C30_CancelledSkipped ==
  nOut # None =>
    \A i \in DOMAIN nIn :
      nIn[i].STATUS = "CANCELLED" => nOut[1] = parseICS(Extracted(Without(nIn, i)))

C30_Witness ==
  /\ nOut # None
  /\ Len(nIn) = 2
  /\ nIn[1].STATUS = "CANCELLED"
  /\ WellFormed(nIn[1])
  /\ WellFormed(nIn[2])
  /\ nIn[2].STATUS = ""
  /\ nIn[2] # [nIn[1] EXCEPT !.STATUS = ""]
  /\ nOut[1] = << Range(nIn[2].DTSTART[2], nIn[2].DTEND[2]) >>

\* ---- consistency of the stored keys
\* the stored SyncStatus of s carries a booking hash and the list stored under
\* the booked key of s is the list with that hash
HashMatchesBooked(s) ==
  (kv[statusKey(s)] # None /\ JSONparse(kv[statusKey(s)][1]).booking_hash # None) =>
     /\ kv[bookedKey(s)] # None
     /\ StripPrefix(JSONparse(kv[statusKey(s)][1]).booking_hash[1])
          = sha256Hex(kv[bookedKey(s)][1])

\* C32: between cycles (store and feed failures allowed at any step), whenever
\* the stored SyncStatus of a resource carries a booking hash h, the list stored
\* under its booked key is the list whose hash is h.
C32_HashMatchesContent ==
  /\ CycleEnded => HashMatchesBooked(slug)
  /\ pc = "idle" => \A s \in Slugs : HashMatchesBooked(s)

\* a store operation of the persist stage failed and the cycle ended with the
\* failed SyncStatus of the catch written
PersistFailureReported ==
  /\ CycleEnded
  /\ PersistFailed
  /\ hist.statusWrites > 0
  /\ ~storedStatus.ok

\* C33 as stated: a cycle that ends with a failed SyncStatus because a store
\* operation of the persist stage failed leaves booked and last_sync with the
\* values they had before the cycle.
C33_StateUnchangedOnError ==
  PersistFailureReported =>
    /\ kv[bookedKey(slug)] = hist.booked0
    /\ kv[lastKey(slug)] = hist.last0

\* C33 amended: such a cycle leaves booked either as it was or, when the put of
\* booked had succeeded before the failure, equal to the candidate list of a
\* changed cycle; last_sync is as it was unless booked holds the candidate and
\* last_sync was put too; the failed SyncStatus carries no booking hash.
C33_PartialPersistOnError ==
  PersistFailureReported =>
    /\ \/ kv[bookedKey(slug)] = hist.booked0
       \/ /\ hist.readPrev
          /\ hist.prevHash # bookingHash
          /\ hist.putBooked
          /\ kv[bookedKey(slug)] = Some(JSONstringify(ranges[1]))
    /\ \/ kv[lastKey(slug)] = hist.last0
       \/ /\ hist.putLast
          /\ kv[bookedKey(slug)] = Some(JSONstringify(ranges[1]))
          /\ kv[lastKey(slug)] = Some(now)
    /\ storedStatus.message = "kv_write_error"
    /\ storedStatus.booking_hash = None

C33_Witness ==
  /\ PersistFailureReported
  /\ hist.booked0 # None
  /\ kv[bookedKey(slug)] # hist.booked0
  /\ kv[bookedKey(slug)] = Some(JSONstringify(ranges[1]))
  /\ kv[lastKey(slug)] = hist.last0

\* ---- fetchWithTimeout: the waits of an attempt
\* C34: whenever fetchWithTimeout is suspended on the network for an attempt,
\* waiting for the response or for the response body, the timeout timer of
\* that attempt is armed.
C34_EveryWaitBounded ==
  pc \in {"fetch_wait", "body_wait"} => timer

\* ---- the HTTP handlers (checked under SpecHttp)
\* C21: a request to the worker's HTTP entry point runs a full sync cycle over
\* every configured resource: once it is answered, every resource has the
\* SyncStatus a scheduled invocation would have written, and the response
\* carries the per-resource outcome.
C21_RequestRunsCycle ==
  (req.handler = "fetch" /\ req.pc = "answered") =>
     /\ "synced" \in DOMAIN req.resp[1].body
     /\ env.kvBound => \A s \in Slugs : kv[statusKey(s)] # None

\* C22: the availability endpoint never puts; it issues store gets only for the
\* two keys of a configured resource id; a request whose slug does not normalize
\* to a configured resource id is answered with an error response without any
\* store get.
C22_RejectsUnknownSlug ==
  [][ (req' # req /\ req'.handler = "availability") =>
        LET sl == normalizeSlug(req'.slug[1])
        IN /\ kv' = kv
           /\ req'.gets \subseteq {<<"avail", sl, "booked">>, <<"avail", sl, "last_sync">>}
           /\ DOMAIN req'.got \subseteq req'.gets
           /\ sl \notin Slugs =>
                /\ req'.pc = "answered"
                /\ req'.gets = {}
                /\ req'.resp[1].status >= 400
                /\ req'.resp[1].body.ok = FALSE ]_vars

C22_Witness ==
  /\ req.handler = "availability"
  /\ req.pc = "answered"
  /\ req.method = "GET"
  /\ req.bound
  /\ req.slug[1].words = <<"villa">>
  /\ req.resp[1].status = 400
  /\ req.gets = {}
  /\ \E k \in Keys : kv[k] # None

\* the three store keys of a resource
KeysOf(s) == {<<"avail", s, "booked">>, <<"avail", s, "last_sync">>,
              <<"avail", s, "sync_status">>}

\* C27: a step of the sync cycle for a resource changes no store key but the
\* three keys of that resource, and the previous status it reads is the one
\* stored under that resource's sync_status key; a step of the availability or
\* of the health endpoint changes no avail:* key.
C27_KeysPartitioned ==
  [][ /\ \A k \in StoreKeys : kv'[k] # kv[k] =>
            IF req' = req THEN k \in KeysOf(props[idx].slug) ELSE k \notin Keys
      /\ (hist'.readPrev /\ ~hist.readPrev) =>
            LET stored == kv[<<"avail", props[idx].slug, "sync_status">>]
            IN hist'.prevHash =
                 IF stored = None \/ JSONparse(stored[1]).booking_hash = None THEN None
                 ELSE Some(StripPrefix(JSONparse(stored[1]).booking_hash[1])) ]_vars

C27_Witness ==
  /\ idx = 2
  /\ pc = "done"
  /\ hist.readPrev
  /\ hist.putBooked
  /\ hist.putLast
  /\ hist.statusWrites = 1
  /\ \A k \in KeysOf("studio-9") : kv[k] # None
  /\ kv[bookedKey("blue-dream")] = None
  /\ kv[statusKey("blue-dream")] # None
  /\ kv[healthKey] # None
  /\ req.handler = "availability"
  /\ req.pc = "answered"
  /\ req.resp[1].status = 200

\* ---- normalizeRanges: algebraic properties (checked under SpecNorm)
\* every entry of the list is an Interval: both dates present and end > start
AllValid(seq) == \A i \in DOMAIN seq : Valid(seq[i])
\* the list rearranged by the permutation f of its index set
Permuted(seq, f) == [i \in DOMAIN seq |-> seq[f[i]]]
\* the calendar dates a list of half-open intervals makes unavailable
Covered(seq) == {d \in 1..MaxDate : \E i \in DOMAIN seq : seq[i].start <= d /\ d < seq[i].end}
Min(a, b) == IF a <= b THEN a ELSE b
Max(a, b) == IF a >= b THEN a ELSE b

\* C16: normalizeRanges is idempotent: applied to its own output it returns that
\* output, for every input list (entries with missing or inverted dates included).
C16_Idempotent ==
  nOut # None => normalizeRanges(nOut[1]) = nOut[1]

C16_Witness ==
  /\ nOut # None
  /\ Len(nIn) = 3
  /\ AllValid(nIn)
  /\ Len(nOut[1]) = 2
  /\ nOut[1] # SubSeq(nIn, 1, 2)
  /\ normalizeRanges(nOut[1]) = nOut[1]

\* C17: normalizeRanges does not depend on the order of its input: every
\* permutation of a list of intervals (end > start) normalizes to the same list,
\* also when several intervals share their start date.
C17_OrderIndependent ==
  (nOut # None /\ AllValid(nIn)) =>
    \A f \in Permutations(DOMAIN nIn) : normalizeRanges(Permuted(nIn, f)) = nOut[1]

C17_Witness ==
  /\ nOut # None
  /\ AllValid(nIn)
  /\ Len(nIn) = 3
  /\ nIn[1].start = nIn[2].start
  /\ nIn[1].end > nIn[2].end
  /\ nIn[3].start < nIn[1].start
  /\ nOut[1] = normalizeRanges(<<nIn[3], nIn[2], nIn[1]>>)

\* C18: two intervals that strictly overlap (the later-starting one starts before
\* the other ends) normalize to exactly one interval, from the smaller start to
\* the larger end.
C18_OverlapMerged ==
  (nOut # None /\ Len(nIn) = 2 /\ RangesOverlap(nIn[1], nIn[2])) =>
    nOut[1] = << Range(Min(nIn[1].start, nIn[2].start), Max(nIn[1].end, nIn[2].end)) >>

C18_Witness ==
  /\ nIn = << Range(1, 3), Range(2, 4) >>
  /\ nOut = Some(<< Range(1, 4) >>)

\* C19: the output of normalizeRanges on a list of intervals (end > start) holds
\* no interval twice, however often an interval occurs in the input.
C19_NoDuplicates ==
  (nOut # None /\ AllValid(nIn)) =>
    \A i, j \in DOMAIN nOut[1] : i # j => nOut[1][i] # nOut[1][j]

C19_Witness ==
  /\ nOut # None
  /\ AllValid(nIn)
  /\ Len(nIn) = 3
  /\ nIn[1] = nIn[3]
  /\ nIn[2] # nIn[1]
  /\ nIn[2].start = nIn[1].start
  /\ Len(nOut[1]) = 1

\* C20: normalizeRanges preserves coverage: for a list of intervals with
\* end > start the dates covered by the output are exactly the dates covered by
\* the input.
C20_CoveragePreserved ==
  (nOut # None /\ AllValid(nIn)) => Covered(nOut[1]) = Covered(nIn)

C20_Witness ==
  /\ nOut # None
  /\ AllValid(nIn)
  /\ Len(nIn) = 3
  /\ Len(nOut[1]) = 2
  /\ nIn[1].start > nIn[2].start
  /\ Covered(nOut[1]) = {1, 3}

\* C35: for every list of intervals with end > start, the output of
\* normalizeRanges is strictly ascending by start and any two consecutive output
\* intervals p, q satisfy p.end <= q.start.
C35_SortedDisjoint ==
  (nOut # None /\ AllValid(nIn)) =>
    \A i \in 1..(Len(nOut[1]) - 1) :
      /\ nOut[1][i].start < nOut[1][i + 1].start
      /\ nOut[1][i].end <= nOut[1][i + 1].start

C35_Witness ==
  /\ nOut # None
  /\ AllValid(nIn)
  /\ Len(nIn) = 3
  /\ nIn[1].start > nIn[2].start
  /\ RangesOverlap(nIn[1], nIn[3])
  /\ Len(nOut[1]) = 2
  /\ nOut[1][1] = nIn[2]
  /\ nOut[1][1].end < nOut[1][2].start

\* ---- what reaches the booked key
\* C36: every interval stored under a booked key satisfies end > start, whatever
\* the feeds served: events whose end is not after their start or whose
\* boundaries are missing never reach the store; the list handed to the put is
\* made of such intervals only.
C36_StoredIntervalsValid ==
  /\ \A s \in Slugs :
        kv[bookedKey(s)] # None => AllValid(JSONparse(kv[bookedKey(s)][1]))
  /\ ranges # None => AllValid(ranges[1])

C36_Witness ==
  /\ idx = 2
  /\ pc = "done"
  /\ hist.putBooked
  /\ icsText = Some(<<[dtstart |-> 0, dtend |-> 2, cancelled |-> FALSE]>>)
  /\ kv[bookedKey("studio-9")] = Some(JSONstringify(<<>>))
  /\ kv[bookedKey("blue-dream")] = Some(JSONstringify(<<Range(1, 2)>>))
  /\ lastDone["blue-dream"] # None

\* ---- termination of a cycle (checked under SpecLive)
\* positions of syncProperty inside fetchWithTimeout, and after it
Fetching == {"fetch_wait", "backoff", "body_wait"}
PastFetching == {"hash_feed", "hash_booking", "kv_get", "put_booked", "put_last",
                 "ws_fetch_error", "ws_hash_error", "ws_unchanged", "ws_ok",
                 "ws_kv_write_error", "alert", "done", "crashed"}

\* every started cycle ends, by returning or by an escaping error
CycleTerminates == (pc = "sync") ~> CycleEnded
\* at most MaxAttempts requests are made for the feed of a cycle
AttemptsBounded == hist.requests <= MaxAttempts /\ attempt < MaxAttempts
\* once past fetchWithTimeout a cycle never fetches again
NoReturnToFetching == [][(pc \in PastFetching) => ~(pc' \in Fetching)]_vars

\* C37: every started sync cycle ends in a terminal state of the orchestrator:
\* a cycle that has ended has written its SyncStatus report or its early-exit
\* failure report (given that every network attempt and every store operation
\* eventually settles, after at most 3 fetch attempts, never fetching again
\* after hashing has started).
C37_CycleEndsReported ==
  CycleEnded => hist.statusWrites > 0

\* ---- the Stripe webhook (checked under SpecWebhook)
\* C31: once the signature of a delivery has been verified, the handler answers
\* it with a 2xx acknowledgement whatever fails afterwards, never with HTTP 500.
C31_No500AfterVerification ==
  \A d \in Deliveries :
    (hook.dl[d].pc = "answered" /\ hook.dl[d].verified) =>
       hook.dl[d].status \in 200..299

\* C38: over any number of deliveries of one verified, paid
\* checkout.session.completed event, sequential or concurrent, the payment
\* notification is sent at most once and the booking is persisted at most once.
C38_AtMostOnce ==
  /\ hook.sent["evt_1"] <= 1
  /\ hook.puts["evt_1"] <= 1

====
